---- MODULE Spec2Model ----
(***************************************************************************)
(* A model of swrni/selenium-helpers: the retry wrapper                     *)
(* (repeat_on_failure.py), the lock-protected pid record of the             *)
(* chromedriver service (_service.py) and the lock-protected session-id     *)
(* record (session.py).                                                     *)
(*                                                                          *)
(* SpecRetry runs one call of a function decorated by RepeatOnFailure and   *)
(* then one `with repeat_on_exceptions(...) as r: pass` on the same         *)
(* sequence of operation outcomes.                                          *)
(***************************************************************************)
EXTENDS Integers, Sequences, FiniteSets, TLC

\* ------------------------------------------------------------------------
\* Bounds
\* ------------------------------------------------------------------------

\* Largest value of 'tries' that is explored (0..MaxTries).
MaxTries == 3

\* Number of calls the independent callers make in total.
MaxOps == 3

\* The operating system hands out the pids FirstPid + 1, FirstPid + 2, ...
FirstPid == 8

\* Number of get_driver / shutdown calls the processes make in total.
MaxCalls == 2

\* Number of sessions and chromedrivers that die by themselves.
MaxFaults == 1

\* Number of get_driver calls with the session id in the environment.
MaxEnvCalls == 3

\* ------------------------------------------------------------------------
\* repeat_on_failure.py
\* ------------------------------------------------------------------------

VARIABLES tries, exception_types, outcomes, deco, cm

retryVars == <<tries, exception_types, outcomes, deco, cm>>

\* _service.py and session.py: per caller, the position in the running
\* function (pc), its locals (loc), the number of calls made (ops) and the
\* outcome of the last call (ret); the holders of the two FileLocks; the two
\* files; the processes started by subprocess.Popen (osProc).  run, written,
\* stable and expect record the history the properties speak about.
VARIABLES pc, loc, ops, ret, environ, pidLock, sessLock, pidFile, sessFile,
          osProc, run, written, stable, expect

fileVars == <<pc, loc, ops, ret, environ, pidLock, sessLock, pidFile, sessFile,
              osProc, run, written, stable, expect>>

\* The facade: the open_url scope (nav), a verified write (wr), and per
\* process the position of a connect or shutdown (cpc), its locals (cloc)
\* and its result (cres); the sessions of the service (sess) and the record
\* of what has happened (hist); per process the session id in os.environ
\* and what its get_driver calls returned (senv); a call of an interaction
\* primitive (prim).
VARIABLES nav, wr, cpc, cloc, cres, sess, hist, senv, prim

extVars == <<nav, wr, cpc, cloc, cres, sess, hist, senv, prim>>

vars == <<retryVars, fileVars, extVars>>

\* Exception classes an invocation of the wrapped operation may raise.
ExceptionKinds == {"WebDriverException", "NoAlertPresentException", "KeyError"}

\* What one invocation of the wrapped operation does: return, or raise.
Outcomes == {"ok"} \cup ExceptionKinds

\* The values 'exception_types' takes in the repository: the default (), the
\* (Exception, ) of RepeatOnError, and the single classes of Settings.
ExceptionTypeSets ==
    { {}, {"Exception"}, {"WebDriverException"}, {"NoAlertPresentException"} }

\* isinstance(raised_exception, exception_type): every kind is an Exception,
\* and NoAlertPresentException derives from WebDriverException.
IsInstance(kind, exception_type) ==
    \/ exception_type = kind
    \/ exception_type = "Exception"
    \/ kind = "NoAlertPresentException" /\ exception_type = "WebDriverException"

HandleExceptionAll(kind, types) == TRUE

\* handle_exception = any(isinstance(raised_exception, t) for t in types)
HandleException(kind, types) ==
    \E t \in types : IsInstance(kind, t)

LastTryNever(try_index, n) == FALSE

LastTryEarly(try_index, n) == try_index + 1 >= n

\* if try_index == self.tries: raise
LastTry(try_index, n) == try_index = n

\* The value the caller gets: the return value of invocation 'call', None,
\* or the exception raised by invocation 'call'.
Returned(call) == [how |-> "return", kind |-> "ok", call |-> call]
ReturnedNone == [how |-> "return", kind |-> "None", call |-> 0]
Raised(kind, call) == [how |-> "raise", kind |-> kind, call |-> call]
Pending == [how |-> "pending", kind |-> "None", call |-> 0]

RunInit == [pc |-> "idle", try_index |-> 0, calls |-> 0, sleeps |-> 0,
            result |-> Pending]

RetryInit ==
    /\ tries \in 0..MaxTries
    /\ exception_types \in ExceptionTypeSets
    /\ outcomes \in [1..MaxTries -> Outcomes]
    /\ deco = RunInit
    /\ cm = RunInit

\* --- RepeatOnFailure.__call__.try_to_execute -----------------------------

\* The caller calls the decorated function: the for loop is entered.
DecoCall ==
    /\ deco.pc = "idle"
    /\ deco' = [deco EXCEPT !.pc = "for", !.try_index = 1]
    /\ UNCHANGED <<tries, exception_types, outcomes, cm, fileVars, extVars>>

\* for try_index in range(1, self.tries + 1): ... ; return None
DecoFor ==
    /\ deco.pc = "for"
    /\ IF deco.try_index <= tries
         THEN deco' = [deco EXCEPT !.pc = "try"]
         ELSE deco' = [deco EXCEPT !.pc = "done", !.result = ReturnedNone]
    /\ UNCHANGED <<tries, exception_types, outcomes, cm, fileVars, extVars>>

\* try: return function_with_params(*args, **kwargs) / except Exception: ...
DecoTry ==
    /\ deco.pc = "try"
    /\ LET call == deco.calls + 1
           o == outcomes[call]
       IN  IF o = "ok"
             THEN deco' = [deco EXCEPT !.calls = call,
                                       !.pc = "done", !.result = Returned(call)]
             ELSE IF ~HandleException(o, exception_types)
                       \/ LastTry(deco.try_index, tries)
                    THEN deco' = [deco EXCEPT !.calls = call,
                                              !.pc = "done",
                                              !.result = Raised(o, call)]
                    ELSE deco' = [deco EXCEPT !.calls = call,
                                              !.pc = "sleep"]
    /\ UNCHANGED <<tries, exception_types, outcomes, cm, fileVars, extVars>>

\* time.sleep(self.sleep_time), then the next iteration of the loop.
DecoSleep ==
    /\ deco.pc = "sleep"
    /\ deco' = [deco EXCEPT !.sleeps = @ + 1,
                            !.try_index = @ + 1, !.pc = "for"]
    /\ UNCHANGED <<tries, exception_types, outcomes, cm, fileVars, extVars>>

\* --- repeat_on_exceptions, a generator under @contextmanager ---------------
\* cm.pc = "for"/"try"/"sleep" is the generator's position; cm.phase tells
\* whether __enter__ or __exit__ of the context manager is driving it.

\* `with repeat_on_exceptions(f, tries, sleep_time, exception_types) as r:`
\* __enter__ calls next() on the generator.  The decorated call has finished.
CmEnter ==
    /\ deco.pc = "done"
    /\ cm.pc = "idle"
    /\ cm' = [cm EXCEPT !.pc = "for", !.try_index = 1]
    /\ UNCHANGED <<tries, exception_types, outcomes, deco, fileVars, extVars>>

\* for try_index in range(1, tries + 1): ... ; return None
\* A generator that returns inside __enter__ never yielded: contextlib raises
\* RuntimeError.  Inside __exit__ the return ends the with statement.
CmFor ==
    /\ cm.pc = "for"
    /\ IF cm.try_index <= tries
         THEN cm' = [cm EXCEPT !.pc = "try"]
         ELSE IF cm.result = Pending
                THEN cm' = [cm EXCEPT !.pc = "done",
                                      !.result = Raised("RuntimeError", 0)]
                ELSE cm' = [cm EXCEPT !.pc = "done"]
    /\ UNCHANGED <<tries, exception_types, outcomes, deco, fileVars, extVars>>

\* try: yield function_with_params(*args, **kwargs) / except Exception: ...
\* The first yield hands the value to the with statement; a second yield,
\* reached from __exit__, makes contextlib raise RuntimeError.
CmTry ==
    /\ cm.pc = "try"
    /\ LET call == cm.calls + 1
           o == outcomes[call]
       IN  IF o = "ok"
             THEN IF cm.result = Pending
                    THEN cm' = [cm EXCEPT !.calls = call,
                                          !.pc = "body",
                                          !.result = Returned(call)]
                    ELSE cm' = [cm EXCEPT !.calls = call,
                                          !.pc = "done",
                                          !.result = Raised("RuntimeError", call)]
             ELSE IF ~HandleException(o, exception_types)
                       \/ LastTry(cm.try_index, tries)
                    THEN cm' = [cm EXCEPT !.calls = call,
                                          !.pc = "done",
                                          !.result = Raised(o, call)]
                    ELSE cm' = [cm EXCEPT !.calls = call,
                                          !.pc = "sleep"]
    /\ UNCHANGED <<tries, exception_types, outcomes, deco, fileVars, extVars>>

\* The body of the with statement (pass) ends; __exit__ resumes the generator
\* after the yield, which leaves the try statement without an exception.
CmBody ==
    /\ cm.pc = "body"
    /\ cm' = [cm EXCEPT !.pc = "sleep"]
    /\ UNCHANGED <<tries, exception_types, outcomes, deco, fileVars, extVars>>

\* time.sleep(sleep_time), then the next iteration of the loop.
CmSleep ==
    /\ cm.pc = "sleep"
    /\ cm' = [cm EXCEPT !.sleeps = @ + 1,
                        !.try_index = @ + 1, !.pc = "for"]
    /\ UNCHANGED <<tries, exception_types, outcomes, deco, fileVars, extVars>>


RetryNext ==
    \/ DecoCall
    \/ DecoFor
    \/ DecoTry
    \/ DecoSleep
    \/ CmEnter
    \/ CmFor
    \/ CmTry
    \/ CmBody
    \/ CmSleep

\* ------------------------------------------------------------------------
\* Python strings, files and the operating system
\* ------------------------------------------------------------------------

\* The independent callers (operating-system processes using the library).
Procs == {"p1", "p2"}

\* A str is a sequence of one-character strings.
Whitespace == {" ", "\n", "\t"}

Digits == <<"0", "1", "2", "3", "4", "5", "6", "7", "8", "9">>

RECURSIVE IntToStr(_)
\* str(process.pid): the decimal digits of a non-negative int.
IntToStr(n) ==
    IF n < 10 THEN <<Digits[n + 1]>>
    ELSE IntToStr(n \div 10) \o <<Digits[(n % 10) + 1]>>

DigitValue(c) == CHOOSE d \in 0..9 : Digits[d + 1] = c

IsDecimal(s) ==
    /\ Len(s) > 0
    /\ \A i \in 1..Len(s) : \E d \in 0..9 : Digits[d + 1] = s[i]

RECURSIVE DecimalValue(_)
DecimalValue(s) ==
    IF Len(s) = 0 THEN 0
    ELSE 10 * DecimalValue(SubSeq(s, 1, Len(s) - 1)) + DigitValue(s[Len(s)])

\* file.readline(): the text up to and including the first newline.
Readline(s) ==
    IF \E i \in 1..Len(s) : s[i] = "\n"
      THEN SubSeq(s, 1, CHOOSE i \in 1..Len(s) :
                           /\ s[i] = "\n"
                           /\ \A j \in 1..(i - 1) : s[j] # "\n")
      ELSE s

\* str.strip(): without the leading and trailing whitespace.
Strip(s) ==
    IF \A i \in 1..Len(s) : s[i] \in Whitespace THEN <<>>
    ELSE LET first == CHOOSE i \in 1..Len(s) :
                         /\ s[i] \notin Whitespace
                         /\ \A j \in 1..(i - 1) : s[j] \in Whitespace
             last == CHOOSE i \in 1..Len(s) :
                        /\ s[i] \notin Whitespace
                        /\ \A j \in (i + 1)..Len(s) : s[j] \in Whitespace
         IN  SubSeq(s, first, last)

\* A Python value passed as a session id: a str, or something else whose
\* f"{...}" rendering is text.
PyStr(text) == [isstr |-> TRUE, text |-> text]
PyNone == [isstr |-> FALSE, text |-> <<"N", "o", "n", "e">>]

\* The int() of _read_pid did not parse: the function returns None.
NonePid == 0 - 1

\* A file of the file system: missing, or holding text.
Absent == [exists |-> FALSE, data |-> <<>>]
Holding(text) == [exists |-> TRUE, data |-> text]

\* open(path, "w"): the file is created or truncated.
OpenForWriting(file) == Holding(<<>>)

\* file.write(text) and the close that flushes it: the text lands at offset 0
\* of the file the descriptor refers to.  If the path was removed meanwhile
\* the text goes to the unlinked file and the path stays missing.
WriteAtStart(file, text) ==
    IF ~file.exists THEN file
    ELSE Holding(text \o SubSeq(file.data, Len(text) + 1, Len(file.data)))

\* The session ids the callers store.
SessionIds == { PyStr(<<"a">>), PyStr(<<"b", "c">>) }

\* The pids the operating system can hand out within the bound.
Pids == (FirstPid + 1)..(FirstPid + MaxOps)

Launched == { pid \in Pids : osProc[pid] # "none" }

\* The pid of the next process subprocess.Popen starts.
NextPid == FirstPid + Cardinality(Launched) + 1

LockFreeAlways(holders) == TRUE

\* FileLock.acquire succeeds when no process holds the lock file.
LockFree(holders) == holders = {}

RECURSIVE SumOver(_, _)
SumOver(f, S) ==
    IF S = {} THEN 0
    ELSE LET x == CHOOSE y \in S : TRUE IN f[x] + SumOver(f, S \ {x})

\* The number of calls begun so far, by all callers together.
CallsMade == SumOver(ops, Procs)

NoRun == [starts |-> 0, pids |-> {}]
NoValue == [valid |-> FALSE, value |-> PyStr(<<>>)]
Value(v) == [valid |-> TRUE, value |-> v]
NoLocals == [pid |-> NonePid, arg |-> PyStr(<<>>), sid |-> <<>>,
             before |-> Absent]
NoResult == [op |-> "none", status |-> "none", text |-> <<>>]
Result(op, status, text) == [op |-> op, status |-> status, text |-> text]

FileInit ==
    /\ pc = [p \in Procs |-> "idle"]
    /\ loc = [p \in Procs |-> NoLocals]
    /\ ops = [p \in Procs |-> 0]
    /\ ret = [p \in Procs |-> NoResult]
    /\ environ \in [Procs -> BOOLEAN]
    /\ pidLock = {}
    /\ sessLock = {}
    /\ pidFile = Absent
    /\ sessFile = Absent
    /\ osProc = [pid \in Pids |-> "none"]
    /\ run = [p \in Procs |-> NoRun]
    /\ written = {}
    /\ stable = NoValue
    /\ expect = [p \in Procs |-> NoValue]

\* The values of the variables SpecRetry does not use.
FileIdle ==
    /\ pc = [p \in Procs |-> "idle"]
    /\ loc = [p \in Procs |-> NoLocals]
    /\ ops = [p \in Procs |-> 0]
    /\ ret = [p \in Procs |-> NoResult]
    /\ environ = [p \in Procs |-> TRUE]
    /\ pidLock = {}
    /\ sessLock = {}
    /\ pidFile = Absent
    /\ sessFile = Absent
    /\ osProc = [pid \in Pids |-> "none"]
    /\ run = [p \in Procs |-> NoRun]
    /\ written = {}
    /\ stable = NoValue
    /\ expect = [p \in Procs |-> NoValue]

\* The values of the variables Spec does not use.
RetryIdle ==
    /\ tries = 0
    /\ exception_types = {}
    /\ outcomes = [i \in 1..MaxTries |-> "ok"]
    /\ deco = RunInit
    /\ cm = RunInit

\* Ghost bookkeeping: a caller that starts anything but another start(), or
\* whose start() fails, is no longer in a run of consecutive start() calls.
EndRun(p) == [run EXCEPT ![p] = NoRun]

\* Ghost bookkeeping: the session record is being changed, so no completed
\* write is "the last one with nothing in between" any more.
Disturbed ==
    /\ stable' = NoValue
    /\ expect' = [q \in Procs |-> NoValue]

\* A call ends by raising 'exception'.
Raise(p, op, exception) ==
    /\ pc' = [pc EXCEPT ![p] = "idle"]
    /\ ret' = [ret EXCEPT ![p] = Result(op, exception, <<>>)]

\* ------------------------------------------------------------------------
\* _service.py
\* ------------------------------------------------------------------------

\* _read_pid: int(pid_file.readline().strip()), None on ValueError.
ReadPid(data) ==
    LET text == Strip(Readline(data))
    IN  IF IsDecimal(text) THEN DecimalValue(text) ELSE NonePid

\* The port of the command line is free: no started chromedriver serves it.
PortFree == \A pid \in Pids : osProc[pid] # "running"

\* process.poll() is truthy: the process has exited with a non-zero code
\* (SIGTERM gives -15).
PollTruthy(pid) == osProc[pid] \in {"exited1", "bindfail", "terminated"}

StartBeginDefault(p) ==
    /\ pc[p] = "idle"
    /\ CallsMade < MaxOps
    /\ ops' = [ops EXCEPT ![p] = @ + 1]
    /\ expect' = [expect EXCEPT ![p] = NoValue]
    /\ pc' = [pc EXCEPT ![p] = "start_lock"]
    /\ UNCHANGED <<retryVars, extVars, loc, ret, run, environ, pidLock,
                   sessLock, pidFile, sessFile, osProc, written, stable>>

\* _start_chromedriver, up to the lock: executable_path =
\* os.environ[PATH_ENV_KEY] raises KeyError when the variable is not set.
StartBegin(p) ==
    /\ pc[p] = "idle"
    /\ CallsMade < MaxOps
    /\ ops' = [ops EXCEPT ![p] = @ + 1]
    /\ expect' = [expect EXCEPT ![p] = NoValue]
    /\ IF environ[p]
         THEN /\ pc' = [pc EXCEPT ![p] = "start_lock"]
              /\ UNCHANGED <<ret, run>>
         ELSE /\ Raise(p, "start", "KeyError")
              /\ run' = EndRun(p)
    /\ UNCHANGED <<retryVars, extVars, loc, environ, pidLock, sessLock, pidFile,
                   sessFile, osProc, written, stable>>

\* with FileLock(_PID_FILE_PATH_LOCK, timeout=15): the lock is acquired.
StartLock(p) ==
    /\ pc[p] = "start_lock"
    /\ LockFree(pidLock)
    /\ pidLock' = pidLock \cup {p}
    /\ pc' = [pc EXCEPT ![p] = "start_popen"]
    /\ UNCHANGED <<retryVars, extVars, loc, ops, ret, environ, sessLock,
                   pidFile, sessFile, osProc, run, written, stable, expect>>

\* FileLock(_PID_FILE_PATH_LOCK, timeout=15) in either function: another
\* process keeps the lock for 15 seconds and acquire raises Timeout.
PidLockTimeout(p) ==
    /\ pc[p] \in {"start_lock", "stop_lock"}
    /\ pidLock \ {p} # {}
    /\ Raise(p, IF pc[p] = "start_lock" THEN "start" ELSE "stop", "Timeout")
    /\ run' = EndRun(p)
    /\ UNCHANGED <<retryVars, extVars, loc, ops, environ, pidLock, sessLock,
                   pidFile, sessFile, osProc, written, stable, expect>>

\* process = subprocess.Popen(cmd): a new process runs.  It serves the port
\* ("running") if the port is free; otherwise it cannot bind the port
\* ("noport") and is going to exit with code 1.
StartPopen(p) ==
    /\ pc[p] = "start_popen"
    /\ NextPid \in Pids
    /\ osProc' = [osProc EXCEPT ![NextPid] = IF PortFree THEN "running"
                                                       ELSE "noport"]
    /\ loc' = [loc EXCEPT ![p].pid = NextPid]
    /\ run' = [run EXCEPT ![p].pids = @ \cup {NextPid}]
    /\ pc' = [pc EXCEPT ![p] = "start_poll"]
    /\ UNCHANGED <<retryVars, extVars, ops, ret, environ, pidLock, sessLock,
                   pidFile, sessFile, written, stable, expect>>

\* subprocess.Popen(cmd) raises OSError (the executable cannot be run); the
\* with statement releases the lock on the way out.
StartPopenFails(p) ==
    /\ pc[p] = "start_popen"
    /\ pidLock' = pidLock \ {p}
    /\ Raise(p, "start", "OSError")
    /\ run' = EndRun(p)
    /\ UNCHANGED <<retryVars, extVars, loc, ops, environ, sessLock, pidFile,
                   sessFile, osProc, written, stable, expect>>

\* if process.poll(): log "already running" / else: write the pid file.
StartPoll(p) ==
    /\ pc[p] = "start_poll"
    /\ pc' = [pc EXCEPT ![p] = IF PollTruthy(loc[p].pid) THEN "start_unlock"
                                                       ELSE "start_open"]
    /\ UNCHANGED <<retryVars, extVars, loc, ops, ret, environ, pidLock,
                   sessLock, pidFile, sessFile, osProc, run, written, stable,
                   expect>>

\* with open(_PID_FILE_PATH, "w") as pid_file:
StartOpen(p) ==
    /\ pc[p] = "start_open"
    /\ pidFile' = OpenForWriting(pidFile)
    /\ pc' = [pc EXCEPT ![p] = "start_write"]
    /\ UNCHANGED <<retryVars, extVars, loc, ops, ret, environ, pidLock,
                   sessLock, sessFile, osProc, run, written, stable, expect>>

\* pid_file.write(str(process.pid)), and the file is closed.
StartWrite(p) ==
    /\ pc[p] = "start_write"
    /\ pidFile' = WriteAtStart(pidFile, IntToStr(loc[p].pid))
    /\ pc' = [pc EXCEPT ![p] = "start_unlock"]
    /\ UNCHANGED <<retryVars, extVars, loc, ops, ret, environ, pidLock,
                   sessLock, sessFile, osProc, run, written, stable, expect>>

\* The with statement ends: the lock is released; return process.
StartUnlock(p) ==
    /\ pc[p] = "start_unlock"
    /\ pidLock' = pidLock \ {p}
    /\ pc' = [pc EXCEPT ![p] = "idle"]
    /\ ret' = [ret EXCEPT ![p] = Result("start", "ok", IntToStr(loc[p].pid))]
    /\ run' = [run EXCEPT ![p].starts = @ + 1]
    /\ UNCHANGED <<retryVars, extVars, loc, ops, environ, sessLock, pidFile,
                   sessFile, osProc, written, stable, expect>>

\* A started chromedriver exits by itself: one that serves the port with
\* exit code 0 or 1, one that could not bind the port with exit code 1.
ProcExit(pid, code) ==
    /\ \/ osProc[pid] = "running"
       \/ osProc[pid] = "noport" /\ code = 1
    /\ osProc' = [osProc EXCEPT ![pid] =
                     IF osProc[pid] = "noport" THEN "bindfail"
                     ELSE IF code = 0 THEN "exited0" ELSE "exited1"]
    /\ UNCHANGED <<retryVars, extVars, pc, loc, ops, ret, environ, pidLock,
                   sessLock, pidFile, sessFile, run, written, stable, expect>>

\* _shutdown_chromedriver is called.
StopBegin(p) ==
    /\ pc[p] = "idle"
    /\ CallsMade < MaxOps
    /\ ops' = [ops EXCEPT ![p] = @ + 1]
    /\ expect' = [expect EXCEPT ![p] = NoValue]
    /\ run' = [q \in Procs |-> NoRun]
    /\ pc' = [pc EXCEPT ![p] = "stop_lock"]
    /\ UNCHANGED <<retryVars, extVars, loc, ret, environ, pidLock, sessLock,
                   pidFile, sessFile, osProc, written, stable>>

StopLockSkipped(p) ==
    /\ pc[p] = "stop_lock"
    /\ pc' = [pc EXCEPT ![p] = "stop_isfile"]
    /\ UNCHANGED <<retryVars, extVars, loc, ops, ret, environ, pidLock,
                   sessLock, pidFile, sessFile, osProc, run, written, stable,
                   expect>>

\* with FileLock(_PID_FILE_PATH_LOCK, timeout=15): the lock is acquired.
StopLock(p) ==
    /\ pc[p] = "stop_lock"
    /\ LockFree(pidLock)
    /\ pidLock' = pidLock \cup {p}
    /\ pc' = [pc EXCEPT ![p] = "stop_isfile"]
    /\ UNCHANGED <<retryVars, extVars, loc, ops, ret, environ, sessLock,
                   pidFile, sessFile, osProc, run, written, stable, expect>>

\* if os.path.isfile(_PID_FILE_PATH):
StopIsFile(p) ==
    /\ pc[p] = "stop_isfile"
    /\ pc' = [pc EXCEPT ![p] = IF pidFile.exists THEN "stop_read"
                                                ELSE "stop_unlock"]
    /\ UNCHANGED <<retryVars, extVars, loc, ops, ret, environ, pidLock,
                   sessLock, pidFile, sessFile, osProc, run, written, stable,
                   expect>>

\* pid = _read_pid().  open(_PID_FILE_PATH, "r") raises FileNotFoundError if
\* the file is gone; the with statement then releases the lock.
StopReadPid(p) ==
    /\ pc[p] = "stop_read"
    /\ IF pidFile.exists
         THEN /\ loc' = [loc EXCEPT ![p].pid = ReadPid(pidFile.data)]
              /\ pc' = [pc EXCEPT ![p] = "stop_kill"]
              /\ UNCHANGED <<ret, pidLock>>
         ELSE /\ Raise(p, "stop", "FileNotFoundError")
              /\ pidLock' = pidLock \ {p}
              /\ UNCHANGED loc
    /\ UNCHANGED <<retryVars, extVars, ops, environ, sessLock, pidFile,
                   sessFile, osProc, run, written, stable, expect>>

StopKillUnsuppressed(p) ==
    /\ pc[p] = "stop_kill"
    /\ LET pid == loc[p].pid
       IN  IF /\ pid # NonePid /\ pid # 0 /\ pid \in Pids
                 /\ osProc[pid] \in {"running", "noport"}
             THEN /\ osProc' = [osProc EXCEPT ![pid] = "terminated"]
                  /\ pc' = [pc EXCEPT ![p] = "stop_remove"]
                  /\ UNCHANGED <<ret, pidLock>>
             ELSE /\ Raise(p, "stop", "OSError")
                  /\ pidLock' = pidLock \ {p}
                  /\ UNCHANGED osProc
    /\ UNCHANGED <<retryVars, extVars, loc, ops, environ, sessLock, pidFile,
                   sessFile, run, written, stable, expect>>

\* if pid: with suppress(OSError): os.kill(pid, signal.SIGTERM)
StopKill(p) ==
    /\ pc[p] = "stop_kill"
    /\ LET pid == loc[p].pid
       IN  IF /\ pid # NonePid /\ pid # 0 /\ pid \in Pids
                 /\ osProc[pid] \in {"running", "noport"}
             THEN osProc' = [osProc EXCEPT ![pid] = "terminated"]
             ELSE UNCHANGED osProc
    /\ pc' = [pc EXCEPT ![p] = "stop_remove"]
    /\ UNCHANGED <<retryVars, extVars, loc, ops, ret, environ, pidLock,
                   sessLock, pidFile, sessFile, run, written, stable, expect>>

\* os.remove(_PID_FILE_PATH), which raises FileNotFoundError if it is gone.
StopRemove(p) ==
    /\ pc[p] = "stop_remove"
    /\ IF pidFile.exists
         THEN /\ pidFile' = Absent
              /\ pc' = [pc EXCEPT ![p] = "stop_unlock"]
              /\ UNCHANGED <<ret, pidLock>>
         ELSE /\ Raise(p, "stop", "FileNotFoundError")
              /\ pidLock' = pidLock \ {p}
              /\ UNCHANGED pidFile
    /\ UNCHANGED <<retryVars, extVars, loc, ops, environ, sessLock, sessFile,
                   osProc, run, written, stable, expect>>

\* The with statement ends: the lock is released and the function returns.
StopUnlock(p) ==
    /\ pc[p] = "stop_unlock"
    /\ pidLock' = pidLock \ {p}
    /\ pc' = [pc EXCEPT ![p] = "idle"]
    /\ ret' = [ret EXCEPT ![p] = Result("stop", "ok", <<>>)]
    /\ UNCHANGED <<retryVars, extVars, loc, ops, environ, sessLock, pidFile,
                   sessFile, osProc, run, written, stable, expect>>

\* ------------------------------------------------------------------------
\* session.py
\* ------------------------------------------------------------------------

\* f"{session_id}"
PyFormat(v) == v.text

\* _read_session_id is called.
ReadBegin(p) ==
    /\ pc[p] = "idle"
    /\ CallsMade < MaxOps
    /\ ops' = [ops EXCEPT ![p] = @ + 1]
    /\ expect' = [expect EXCEPT ![p] = stable]
    /\ run' = EndRun(p)
    /\ pc' = [pc EXCEPT ![p] = "rd_lock"]
    /\ UNCHANGED <<retryVars, extVars, loc, ret, environ, pidLock, sessLock,
                   pidFile, sessFile, osProc, written, stable>>

ReadLockSkipped(p) ==
    /\ pc[p] = "rd_lock"
    /\ pc' = [pc EXCEPT ![p] = "rd_open"]
    /\ UNCHANGED <<retryVars, extVars, loc, ops, ret, environ, pidLock,
                   sessLock, pidFile, sessFile, osProc, run, written, stable,
                   expect>>

\* with FileLock(_SESSION_ID_FILE_PATH_LOCK, timeout=15): acquired.
ReadLock(p) ==
    /\ pc[p] = "rd_lock"
    /\ LockFree(sessLock)
    /\ sessLock' = sessLock \cup {p}
    /\ pc' = [pc EXCEPT ![p] = "rd_open"]
    /\ UNCHANGED <<retryVars, extVars, loc, ops, ret, environ, pidLock, pidFile,
                   sessFile, osProc, run, written, stable, expect>>

\* FileLock(_SESSION_ID_FILE_PATH_LOCK, timeout=15) in any of the three
\* functions: another process keeps the lock and acquire raises Timeout.
SessLockTimeout(p) ==
    /\ pc[p] \in {"rd_lock", "sv_lock", "cl_lock"}
    /\ sessLock \ {p} # {}
    /\ Raise(p, CASE pc[p] = "rd_lock" -> "read"
                  [] pc[p] = "sv_lock" -> "save"
                  [] OTHER -> "clear", "Timeout")
    /\ expect' = [expect EXCEPT ![p] = NoValue]
    /\ UNCHANGED <<retryVars, extVars, loc, ops, environ, pidLock, sessLock,
                   pidFile, sessFile, osProc, run, written, stable>>

\* with suppress(FileNotFoundError): with open(_SESSION_ID_FILE_PATH, "r"):
\* a missing file takes the function to `return ""`.
ReadOpen(p) ==
    /\ pc[p] = "rd_open"
    /\ IF sessFile.exists
         THEN /\ pc' = [pc EXCEPT ![p] = "rd_readline"]
              /\ UNCHANGED loc
         ELSE /\ pc' = [pc EXCEPT ![p] = "rd_unlock"]
              /\ loc' = [loc EXCEPT ![p].sid = <<>>]
    /\ UNCHANGED <<retryVars, extVars, ops, ret, environ, pidLock, sessLock,
                   pidFile, sessFile, osProc, run, written, stable, expect>>

\* return session_id_file.readline().strip()
ReadReadline(p) ==
    /\ pc[p] = "rd_readline"
    /\ loc' = [loc EXCEPT ![p].sid = Strip(Readline(sessFile.data))]
    /\ pc' = [pc EXCEPT ![p] = "rd_unlock"]
    /\ UNCHANGED <<retryVars, extVars, ops, ret, environ, pidLock, sessLock,
                   pidFile, sessFile, osProc, run, written, stable, expect>>

\* The with statement ends: the lock is released and the value is returned.
ReadUnlock(p) ==
    /\ pc[p] = "rd_unlock"
    /\ sessLock' = sessLock \ {p}
    /\ pc' = [pc EXCEPT ![p] = "idle"]
    /\ ret' = [ret EXCEPT ![p] = Result("read", "ok", loc[p].sid)]
    /\ UNCHANGED <<retryVars, extVars, loc, ops, environ, pidLock, pidFile,
                   sessFile, osProc, run, written, stable, expect>>

\* _save_session_id(session_id) is called: a session id that is not a str
\* is replaced by its rendering.
SaveBegin(p, v) ==
    /\ pc[p] = "idle"
    /\ CallsMade < MaxOps
    /\ ops' = [ops EXCEPT ![p] = @ + 1]
    /\ expect' = [expect EXCEPT ![p] = NoValue]
    /\ run' = EndRun(p)
    /\ loc' = [loc EXCEPT ![p].arg = v,
                          ![p].sid = IF v.isstr THEN v.text ELSE PyFormat(v)]
    /\ pc' = [pc EXCEPT ![p] = "sv_lock"]
    /\ UNCHANGED <<retryVars, extVars, ret, environ, pidLock, sessLock, pidFile,
                   sessFile, osProc, written, stable>>

SaveLockSkipped(p) ==
    /\ pc[p] = "sv_lock"
    /\ loc' = [loc EXCEPT ![p].before = sessFile]
    /\ pc' = [pc EXCEPT ![p] = "sv_open"]
    /\ UNCHANGED <<retryVars, extVars, ops, ret, environ, pidLock, sessLock,
                   pidFile, sessFile, osProc, run, written, stable, expect>>

\* with FileLock(_SESSION_ID_FILE_PATH_LOCK, timeout=15): acquired.
\* loc.before remembers what was recorded at that moment.
SaveLock(p) ==
    /\ pc[p] = "sv_lock"
    /\ LockFree(sessLock)
    /\ sessLock' = sessLock \cup {p}
    /\ loc' = [loc EXCEPT ![p].before = sessFile]
    /\ pc' = [pc EXCEPT ![p] = "sv_open"]
    /\ UNCHANGED <<retryVars, extVars, ops, ret, environ, pidLock, pidFile,
                   sessFile, osProc, run, written, stable, expect>>

\* with open(_SESSION_ID_FILE_PATH, "w") as session_id_file:
SaveOpen(p) ==
    /\ pc[p] = "sv_open"
    /\ sessFile' = OpenForWriting(sessFile)
    /\ Disturbed
    /\ pc' = [pc EXCEPT ![p] = "sv_write"]
    /\ UNCHANGED <<retryVars, extVars, loc, ops, ret, environ, pidLock,
                   sessLock, pidFile, osProc, run, written>>

\* session_id_file.write(session_id), and the file is closed.
SaveWrite(p) ==
    /\ pc[p] = "sv_write"
    /\ sessFile' = WriteAtStart(sessFile, loc[p].sid)
    /\ written' = written \cup {loc[p].arg}
    /\ Disturbed
    /\ pc' = [pc EXCEPT ![p] = "sv_unlock"]
    /\ UNCHANGED <<retryVars, extVars, loc, ops, ret, environ, pidLock,
                   sessLock, pidFile, osProc, run>>

\* The with statement ends: the lock is released and the function returns.
SaveUnlock(p) ==
    /\ pc[p] = "sv_unlock"
    /\ sessLock' = sessLock \ {p}
    /\ pc' = [pc EXCEPT ![p] = "idle"]
    /\ ret' = [ret EXCEPT ![p] = Result("save", "ok", <<>>)]
    /\ stable' = Value(loc[p].arg)
    /\ UNCHANGED <<retryVars, extVars, loc, ops, environ, pidLock, pidFile,
                   sessFile, osProc, run, written, expect>>

\* _clear_session_id is called.
ClearBegin(p) ==
    /\ pc[p] = "idle"
    /\ CallsMade < MaxOps
    /\ ops' = [ops EXCEPT ![p] = @ + 1]
    /\ expect' = [expect EXCEPT ![p] = NoValue]
    /\ run' = EndRun(p)
    /\ pc' = [pc EXCEPT ![p] = "cl_lock"]
    /\ UNCHANGED <<retryVars, extVars, loc, ret, environ, pidLock, sessLock,
                   pidFile, sessFile, osProc, written, stable>>

\* with FileLock(_SESSION_ID_FILE_PATH_LOCK, timeout=15): acquired.
ClearLock(p) ==
    /\ pc[p] = "cl_lock"
    /\ LockFree(sessLock)
    /\ sessLock' = sessLock \cup {p}
    /\ pc' = [pc EXCEPT ![p] = "cl_remove"]
    /\ UNCHANGED <<retryVars, extVars, loc, ops, ret, environ, pidLock, pidFile,
                   sessFile, osProc, run, written, stable, expect>>

\* with suppress(FileNotFoundError): os.remove(_SESSION_ID_FILE_PATH)
ClearRemove(p) ==
    /\ pc[p] = "cl_remove"
    /\ sessFile' = Absent
    /\ Disturbed
    /\ pc' = [pc EXCEPT ![p] = "cl_unlock"]
    /\ UNCHANGED <<retryVars, extVars, loc, ops, ret, environ, pidLock,
                   sessLock, pidFile, osProc, run, written>>

\* The with statement ends: the lock is released and the function returns.
ClearUnlock(p) ==
    /\ pc[p] = "cl_unlock"
    /\ sessLock' = sessLock \ {p}
    /\ pc' = [pc EXCEPT ![p] = "idle"]
    /\ ret' = [ret EXCEPT ![p] = Result("clear", "ok", <<>>)]
    /\ UNCHANGED <<retryVars, extVars, loc, ops, environ, pidLock, pidFile,
                   sessFile, osProc, run, written, stable, expect>>

\* ------------------------------------------------------------------------
\* selenium_helpers.py: Driver.open_url
\* ------------------------------------------------------------------------

\* The locations the browser can be at.
Urls == {"L0", "L1", "L2"}

\* What the body of `with driver.open_url(...):` does: nothing, driver.get of
\* another location, or raise an exception.
Bodies == {"pass", "raise"} \cup Urls

NavIdle == [pc |-> "idle", current_url |-> "L0", url |-> "L0",
            go_back |-> TRUE, refresh |-> FALSE, body |-> "pass",
            original_url |-> "L0", entry_gets |-> 0, at_exit |-> "L0",
            exit_gets |-> 0, result |-> "pending"]

NavInit ==
    nav \in { [NavIdle EXCEPT !.current_url = c, !.url = u, !.go_back = g,
                              !.refresh = r, !.body = b] :
              c \in Urls, u \in Urls, g \in BOOLEAN, r \in BOOLEAN,
              b \in Bodies }

GoesAlways(new_url, current, refresh) == TRUE

\* go_to: is_new_url = new_url != self.current_url; if refresh or is_new_url:
Goes(new_url, current, refresh) == refresh \/ new_url # current

\* `with driver.open_url(url, go_back, refresh):` calls __enter__, which runs
\* the generator to original_url = self.current_url.
NavCapture ==
    /\ nav.pc = "idle"
    /\ nav' = [nav EXCEPT !.original_url = nav.current_url, !.pc = "go_to"]
    /\ UNCHANGED <<retryVars, fileVars, wr, cpc, cloc, cres, sess, hist,
                   senv, prim>>

\* go_to(url), then yield: self.get(new_url) and the sleep happen only if
\* the location is new or refresh is set.
NavGoTo ==
    /\ nav.pc = "go_to"
    /\ IF Goes(nav.url, nav.current_url, nav.refresh)
         THEN nav' = [nav EXCEPT !.current_url = nav.url,
                                 !.entry_gets = @ + 1, !.pc = "body"]
         ELSE nav' = [nav EXCEPT !.pc = "body"]
    /\ UNCHANGED <<retryVars, fileVars, wr, cpc, cloc, cres, sess, hist,
                   senv, prim>>

\* The body of the with statement runs.  Its exception is thrown into the
\* generator at the yield, which has no try statement around it: the
\* generator ends there and the exception reaches the caller.
NavBody ==
    /\ nav.pc = "body"
    /\ CASE nav.body = "raise" ->
              nav' = [nav EXCEPT !.at_exit = nav.current_url, !.pc = "done",
                                 !.result = "raised"]
         [] nav.body = "pass" ->
              nav' = [nav EXCEPT !.at_exit = nav.current_url, !.pc = "exit"]
         [] OTHER ->
              nav' = [nav EXCEPT !.current_url = nav.body,
                                 !.at_exit = nav.body, !.pc = "exit"]
    /\ UNCHANGED <<retryVars, fileVars, wr, cpc, cloc, cres, sess, hist,
                   senv, prim>>

\* __exit__ resumes the generator: if go_back: go_to(original_url).
NavExit ==
    /\ nav.pc = "exit"
    /\ IF nav.go_back /\ Goes(nav.original_url, nav.current_url, nav.refresh)
         THEN nav' = [nav EXCEPT !.current_url = nav.original_url,
                                 !.exit_gets = @ + 1, !.pc = "done",
                                 !.result = "returned"]
         ELSE nav' = [nav EXCEPT !.pc = "done", !.result = "returned"]
    /\ UNCHANGED <<retryVars, fileVars, wr, cpc, cloc, cres, sess, hist,
                   senv, prim>>

NavNext ==
    \/ NavCapture
    \/ NavGoTo
    \/ NavBody
    \/ NavExit

\* ------------------------------------------------------------------------
\* selenium_helpers.py: Driver.send_keys_by_xpath and Driver.set_value
\* ------------------------------------------------------------------------

\* Settings.get_default_re_try: the exception types of the wrapper.
DefaultReTryTypes == {"WebDriverException"}

\* One pass of the wrapper used by the Driver methods after an invocation
\* raised 'kind' on try 'try_index' of 'n': an exception outside the
\* configured types, or one on the last try, reaches the caller; otherwise
\* the wrapper sleeps and tries again.
ReTryStep(kind, try_index, n) ==
    IF ~HandleException(kind, DefaultReTryTypes) THEN "raise"
    ELSE IF LastTry(try_index, n) THEN "raise"
    ELSE "retry"

\* A whole wrapped call whose invocation i has outcome outs[i]: "ok", or
\* the exception that reaches the caller.
RECURSIVE ReTryRun(_, _, _)
ReTryRun(outs, n, i) ==
    IF outs[i] = "ok" THEN "ok"
    ELSE IF ReTryStep(outs[i], i, n) = "raise" THEN outs[i]
    ELSE ReTryRun(outs, n, i + 1)

\* What one remote call does: succeed, raise a WebDriverException, or raise
\* something that is not one.
RemoteOutcomes == {"ok", "WebDriverException", "KeyError"}

\* The outcomes of a retried remote call (find_by_xpath,
\* read_attribute_by_xpath) under a budget of n tries.
RetriedOutcomes(n) ==
    { ReTryRun(outs, n, 1) : outs \in [1..n -> RemoteOutcomes] }

\* The values handed to the two methods: str "42", int 42 and str "a".
WriteArgs == { PyStr(<<"4", "2">>),
               [isstr |-> FALSE, text |-> <<"4", "2">>],
               PyStr(<<"a">>) }

WriteIdle == [pc |-> "idle", method |-> "send_keys", tries |-> 1,
              arg |-> PyStr(<<"a">>), keys |-> PyStr(<<"a">>),
              try_index |-> 0, writes |-> 0, value |-> <<>>, sent |-> <<>>,
              element_value |-> PyNone, result |-> "pending",
              kind |-> "ok"]

WriteInit ==
    wr \in { [WriteIdle EXCEPT !.method = m, !.tries = n, !.arg = a,
                               !.keys = a] :
             m \in {"send_keys", "set_value"}, n \in 1..MaxTries,
             a \in WriteArgs }

ValueMatchesAlways(element_value, keys) == TRUE

\* if element_value != keys: raise WebDriverException
ValueMatches(element_value, keys) == element_value = keys

\* An invocation of implementation() raised 'kind': what the wrapper does.
WriteFailed(kind) ==
    IF ReTryStep(kind, wr.try_index, wr.tries) = "retry"
      THEN [wr EXCEPT !.pc = "find", !.try_index = @ + 1]
      ELSE [wr EXCEPT !.pc = "done", !.result = "raised", !.kind = kind]

\* The method is called: send_keys_by_xpath formats keys that are not a
\* str, set_value keeps the value as it is; the wrapper starts its first
\* try.
WriteCall ==
    /\ wr.pc = "idle"
    /\ wr' = [wr EXCEPT !.pc = "find", !.try_index = 1,
                        !.keys = IF wr.method = "send_keys" /\ ~wr.arg.isstr
                                   THEN PyStr(PyFormat(wr.arg))
                                   ELSE wr.arg]
    /\ UNCHANGED <<retryVars, fileVars, nav, cpc, cloc, cres, sess, hist,
                   senv, prim>>

\* element = self.find_by_xpath(xpath), itself a retried call.
WriteFind ==
    /\ wr.pc = "find"
    /\ \E r \in RetriedOutcomes(wr.tries) :
         wr' = IF r = "ok" THEN [wr EXCEPT !.pc = "write"]
               ELSE WriteFailed(r)
    /\ UNCHANGED <<retryVars, fileVars, nav, cpc, cloc, cres, sess, hist,
                   senv, prim>>

\* element.clear(); element.send_keys(keys), or the execute_script of
\* set_value.  The remote call fails, or it is made and the element then
\* holds the text sent or, when the write did not stick, what clear() left
\* (send_keys) or what it held before (set_value).
WriteSend ==
    /\ wr.pc = "write"
    /\ \/ \E kind \in RemoteOutcomes \ {"ok"} : wr' = WriteFailed(kind)
       \/ \E sticks \in BOOLEAN :
            LET text == PyFormat(wr.keys)
                left == IF wr.method = "send_keys" THEN <<>> ELSE wr.value
            IN  wr' = [wr EXCEPT !.pc = "read", !.writes = @ + 1,
                                 !.sent = text,
                                 !.value = IF sticks THEN text ELSE left]
    /\ UNCHANGED <<retryVars, fileVars, nav, cpc, cloc, cres, sess, hist,
                   senv, prim>>

\* element.get_attribute("value") in send_keys_by_xpath, the retried
\* read_attribute_by_xpath(xpath, "value") in set_value.
WriteRead ==
    /\ wr.pc = "read"
    /\ \E r \in IF wr.method = "send_keys" THEN RemoteOutcomes
                ELSE RetriedOutcomes(wr.tries) :
         wr' = IF r = "ok"
                 THEN [wr EXCEPT !.pc = "check",
                                 !.element_value = PyStr(wr.value)]
                 ELSE WriteFailed(r)
    /\ UNCHANGED <<retryVars, fileVars, nav, cpc, cloc, cres, sess, hist,
                   senv, prim>>

\* The comparison of the value read back with the value written: the
\* implementation returns, or raises WebDriverException into the wrapper.
WriteCheck ==
    /\ wr.pc = "check"
    /\ wr' = IF ValueMatches(wr.element_value, wr.keys)
               THEN [wr EXCEPT !.pc = "done", !.result = "returned"]
               ELSE WriteFailed("WebDriverException")
    /\ UNCHANGED <<retryVars, fileVars, nav, cpc, cloc, cres, sess, hist,
                   senv, prim>>

WriteNext ==
    \/ WriteCall
    \/ WriteFind
    \/ WriteSend
    \/ WriteRead
    \/ WriteCheck

\* ------------------------------------------------------------------------
\* web_driver.py and selenium_helpers.py: get_driver / Driver.create and
\* shutdown / Driver.shutdown
\* ------------------------------------------------------------------------

\* The session id the service gives to the i-th session it creates.
SidText(i) == <<"s">> \o IntToStr(i)

\* The number of the session with this id, 0 if the service never made it.
SidIndexIn(text, sessions) ==
    IF \E i \in 1..Len(sessions) : SidText(i) = text
      THEN CHOOSE i \in 1..Len(sessions) : SidText(i) = text
      ELSE 0

SidIndex(text) == SidIndexIn(text, sess)

\* The chromedriver that serves the port.
Listener == CHOOSE pid \in Pids : osProc[pid] = "running"

\* A command of the session with this id is answered without an error: the
\* session is open and the chromedriver that holds it serves the port.
AliveIn(text, sessions, processes) ==
    LET i == SidIndexIn(text, sessions)
    IN  /\ i # 0
        /\ sessions[i].state = "open"
        /\ processes[sessions[i].host] = "running"

SessionAlive(text) == AliveIn(text, sess, osProc)

\* The sessions that crashed or were closed by hand, and the chromedrivers
\* that exited by themselves, so far.
Faults ==
    Cardinality({ i \in 1..Len(sess) : sess[i].state = "closed" })
      + Cardinality({ pid \in Pids : osProc[pid] \in {"exited0", "exited1"} })

\* The locals of a call: the session id of the handle under construction
\* (driver) and of the handle the caller got from its last get_driver
\* (handle).  For the properties: no other process was inside a call
\* (alone), Faults and the session record when the call began, and the
\* NEW_SESSION requests sent and sessions created by the call.
NoCLocals == [driver |-> <<>>, handle |-> <<>>, alone |-> FALSE,
              faults0 |-> 0, requests |-> 0, created |-> 0,
              record0 |-> Absent]
NoCResult == [op |-> "none", status |-> "none", sid |-> <<>>]
NoHist == [calls |-> 0]

SuppressedAll(kind) == TRUE

SuppressedNone(kind) == FALSE

\* with suppress(selenium.common.exceptions.WebDriverException):
Suppressed(kind) == IsInstance(kind, "WebDriverException")

\* A step of get_driver or shutdown between the calls they make.
Outer(p, position, locals, result, sessions, history, label, callee) ==
    /\ cpc' = [cpc EXCEPT ![p] = position]
    /\ cloc' = locals
    /\ cres' = [cres EXCEPT ![p] = result]
    /\ sess' = sessions
    /\ hist' = history
    /\ pc' = [pc EXCEPT ![p] = label]
    /\ loc' = [loc EXCEPT ![p] = callee]
    /\ UNCHANGED <<retryVars, nav, wr, senv, prim, ops, ret, environ, pidLock,
                   sessLock, pidFile, sessFile, osProc, run, written, stable,
                   expect>>

\* The call ends: its locals are gone, the caller has the result.
Finish(p, result, handle) ==
    Outer(p, "none", [cloc EXCEPT ![p] = [NoCLocals EXCEPT !.handle = handle]],
          result, sess, hist, "idle", loc[p])

\* The call ends with an exception that reaches the caller.
Fail(p, op, kind) ==
    Finish(p, [op |-> op, status |-> kind, sid |-> <<>>], cloc[p].handle)

\* The locals of a call that begins: what the properties compare with, and
\* whether another process is inside a call.
Enter(p) ==
    [q \in Procs |->
       IF q = p
         THEN [cloc[p] EXCEPT
                 !.alone = \A o \in Procs \ {p} : cpc[o] = "none",
                 !.faults0 = Faults, !.record0 = sessFile]
         ELSE [cloc[q] EXCEPT !.alone = FALSE]]

\* get_driver is called: service._start_chromedriver().
ConnectBegin(p) ==
    /\ cpc[p] = "none"
    /\ pc[p] = "idle"
    /\ hist.calls < MaxCalls
    /\ IF environ[p]
         THEN Outer(p, "c_start", Enter(p), cres[p], sess,
                    [hist EXCEPT !.calls = @ + 1], "start_lock", loc[p])
         ELSE Outer(p, "none", [Enter(p) EXCEPT ![p] = cloc[p]],
                    [op |-> "connect", status |-> "KeyError", sid |-> <<>>],
                    sess, [hist EXCEPT !.calls = @ + 1], "idle", loc[p])

\* session_id = session._read_session_id()
ConnectStarted(p) ==
    /\ cpc[p] = "c_start"
    /\ pc[p] = "idle"
    /\ IF ret[p].status = "ok"
         THEN Outer(p, "c_read", cloc, cres[p], sess, hist, "rd_lock", loc[p])
         ELSE Fail(p, "connect", ret[p].status)

\* _WebDriver(port) sends NEW_SESSION: the request of handle p.
NewSession(p, position) ==
    IF PortFree
      THEN Fail(p, "connect", "ServiceError")
      ELSE Outer(p, position,
                 [cloc EXCEPT ![p].driver = SidText(Len(sess) + 1),
                              ![p].requests = @ + 1,
                              ![p].created = @ + 1],
                 cres[p],
                 Append(sess, [host |-> Listener, state |-> "open"]),
                 hist, "idle", loc[p])

ConnectConstructFresh(p) ==
    /\ cpc[p] = "c_read"
    /\ pc[p] = "idle"
    /\ IF ret[p].status # "ok" THEN Fail(p, "connect", ret[p].status)
       ELSE NewSession(p, "c_probe")

\* driver = _WebDriver(port, session_id=session_id): execute() answers
\* NEW_SESSION itself when the saved session id is truthy, and sends the
\* request otherwise.
ConnectConstruct(p) ==
    /\ cpc[p] = "c_read"
    /\ pc[p] = "idle"
    /\ IF ret[p].status # "ok" THEN Fail(p, "connect", ret[p].status)
       ELSE IF ret[p].text # <<>>
         THEN Outer(p, "c_probe", [cloc EXCEPT ![p].driver = ret[p].text],
                    cres[p], sess, hist, "idle", loc[p])
         ELSE NewSession(p, "c_probe")

\* session._save_session_id(driver.session_id) is called.
CallSave(p, position) ==
    Outer(p, position, cloc, cres[p], sess, hist, "sv_lock",
          [loc[p] EXCEPT !.arg = PyStr(cloc[p].driver),
                         !.sid = cloc[p].driver])

\* The exception leaves the with suppress block: a WebDriverException ends
\* the block and get_driver goes on to session._clear_session_id(); any
\* other exception reaches the caller.
LeaveSuppress(p, kind) ==
    IF Suppressed(kind)
      THEN Outer(p, "c_clear", cloc, cres[p], sess, hist, "cl_lock", loc[p])
      ELSE Fail(p, "connect", kind)

\* _ = driver.current_url: the first request of a handle that took over a
\* session id.  No chromedriver on the port: urllib3 raises MaxRetryError;
\* a chromedriver that does not have the session open: WebDriverException.
ConnectProbe(p) ==
    /\ cpc[p] = "c_probe"
    /\ pc[p] = "idle"
    /\ IF PortFree THEN LeaveSuppress(p, "MaxRetryError")
       ELSE IF ~SessionAlive(cloc[p].driver)
         THEN LeaveSuppress(p, "WebDriverException")
       ELSE CallSave(p, "c_save")

\* return driver
Return(p) ==
    Finish(p, [op |-> "connect", status |-> "ok", sid |-> cloc[p].driver],
           cloc[p].driver)

\* The save inside the with suppress block is over.
ConnectSaved(p) ==
    /\ cpc[p] = "c_save"
    /\ pc[p] = "idle"
    /\ IF ret[p].status = "ok" THEN Return(p)
       ELSE LeaveSuppress(p, ret[p].status)

\* session._clear_session_id() is over: driver = _WebDriver(port), then
\* session._save_session_id(driver.session_id) is called.
ConnectCleared(p) ==
    /\ cpc[p] = "c_clear"
    /\ pc[p] = "idle"
    /\ IF ret[p].status # "ok" THEN Fail(p, "connect", ret[p].status)
       ELSE NewSession(p, "c_new")

ConnectSaveNew(p) ==
    /\ cpc[p] = "c_new"
    /\ pc[p] = "idle"
    /\ CallSave(p, "c_save2")

\* The second save is over: return driver.
ConnectSaved2(p) ==
    /\ cpc[p] = "c_save2"
    /\ pc[p] = "idle"
    /\ IF ret[p].status = "ok" THEN Return(p)
       ELSE Fail(p, "connect", ret[p].status)

\* self.quit() of Driver.shutdown: execute(Command.QUIT).  The exception of
\* a failed request leaves quit() and shutdown(); an answered one closes
\* the session.
Quit(p) ==
    IF PortFree THEN "MaxRetryError"
    ELSE IF ~SessionAlive(cloc[p].handle) THEN "WebDriverException"
    ELSE "ok"

\* shutdown is called: web_driver.shutdown begins with
\* session._clear_session_id(), Driver.shutdown (with_quit) with self.quit().
ShutdownBegin(p, with_quit) ==
    /\ cpc[p] = "none"
    /\ pc[p] = "idle"
    /\ hist.calls < MaxCalls
    /\ with_quit => cloc[p].handle # <<>>
    /\ LET h == [hist EXCEPT !.calls = @ + 1]
           op == IF with_quit THEN "Driver.shutdown" ELSE "shutdown"
       IN  IF with_quit /\ Quit(p) # "ok"
             THEN Outer(p, "none", [Enter(p) EXCEPT ![p] = cloc[p]],
                        [op |-> op, status |-> Quit(p), sid |-> <<>>],
                        sess, h, "idle", loc[p])
             ELSE Outer(p, IF with_quit THEN "sq_clear" ELSE "s_clear",
                        Enter(p), cres[p],
                        IF with_quit
                          THEN [sess EXCEPT
                                  ![SidIndex(cloc[p].handle)].state = "quit"]
                          ELSE sess,
                        h, "cl_lock", loc[p])

ShutdownOp(p) == IF cpc[p] \in {"sq_clear", "sq_stop"} THEN "Driver.shutdown"
                 ELSE "shutdown"

\* session._clear_session_id() is over: service._shutdown_chromedriver().
ShutdownCleared(p) ==
    /\ cpc[p] \in {"s_clear", "sq_clear"}
    /\ pc[p] = "idle"
    /\ IF ret[p].status = "ok"
         THEN Outer(p, IF cpc[p] = "s_clear" THEN "s_stop" ELSE "sq_stop",
                    cloc, cres[p], sess, hist, "stop_lock", loc[p])
         ELSE Fail(p, ShutdownOp(p), ret[p].status)

\* service._shutdown_chromedriver() is over: shutdown returns.
ShutdownStopped(p) ==
    /\ cpc[p] \in {"s_stop", "sq_stop"}
    /\ pc[p] = "idle"
    /\ IF ret[p].status = "ok"
         THEN Finish(p, [op |-> ShutdownOp(p), status |-> "ok",
                            sid |-> <<>>], <<>>)
         ELSE Fail(p, ShutdownOp(p), ret[p].status)

\* The browser of a session crashes or its window is closed by hand.
SessionDies(i) ==
    /\ Faults < MaxFaults
    /\ sess[i].state = "open"
    /\ sess' = [sess EXCEPT ![i].state = "closed"]
    /\ UNCHANGED <<retryVars, fileVars, nav, wr, cpc, cloc, cres, hist,
                   senv, prim>>

\* A chromedriver exits while the facade is in use.
ServiceExits(pid, code) ==
    /\ Faults < MaxFaults \/ osProc[pid] = "noport"
    /\ ProcExit(pid, code)

ConnectNext ==
    \/ \E p \in Procs : ConnectBegin(p)
    \/ \E p \in Procs : ConnectStarted(p)
    \/ \E p \in Procs : ConnectConstruct(p)
    \/ \E p \in Procs : ConnectProbe(p)
    \/ \E p \in Procs : ConnectSaved(p)
    \/ \E p \in Procs : ConnectCleared(p)
    \/ \E p \in Procs : ConnectSaveNew(p)
    \/ \E p \in Procs : ConnectSaved2(p)
    \/ \E p \in Procs, with_quit \in BOOLEAN : ShutdownBegin(p, with_quit)
    \/ \E p \in Procs : ShutdownCleared(p)
    \/ \E p \in Procs : ShutdownStopped(p)
    \/ \E i \in 1..Len(sess) : SessionDies(i)
    \/ \E p \in Procs : StartLock(p)
    \/ \E p \in Procs : PidLockTimeout(p)
    \/ \E p \in Procs : StartPopen(p)
    \/ \E p \in Procs : StartPopenFails(p)
    \/ \E p \in Procs : StartPoll(p)
    \/ \E p \in Procs : StartOpen(p)
    \/ \E p \in Procs : StartWrite(p)
    \/ \E p \in Procs : StartUnlock(p)
    \/ \E pid \in Pids, code \in {0, 1} : ServiceExits(pid, code)
    \/ \E p \in Procs : StopLock(p)
    \/ \E p \in Procs : StopIsFile(p)
    \/ \E p \in Procs : StopReadPid(p)
    \/ \E p \in Procs : StopKill(p)
    \/ \E p \in Procs : StopRemove(p)
    \/ \E p \in Procs : StopUnlock(p)
    \/ \E p \in Procs : ReadLock(p)
    \/ \E p \in Procs : SessLockTimeout(p)
    \/ \E p \in Procs : ReadOpen(p)
    \/ \E p \in Procs : ReadReadline(p)
    \/ \E p \in Procs : ReadUnlock(p)
    \/ \E p \in Procs : SaveLock(p)
    \/ \E p \in Procs : SaveOpen(p)
    \/ \E p \in Procs : SaveWrite(p)
    \/ \E p \in Procs : SaveUnlock(p)
    \/ \E p \in Procs : ClearLock(p)
    \/ \E p \in Procs : ClearRemove(p)
    \/ \E p \in Procs : ClearUnlock(p)

\* ------------------------------------------------------------------------
\* selenium_helpers.py: click_by_xpath, read_text_by_xpath,
\* read_attribute_by_xpath, send_keys_by_xpath
\* ------------------------------------------------------------------------

Primitives == {"click_by_xpath", "read_text_by_xpath",
               "read_attribute_by_xpath", "send_keys_by_xpath"}

\* A call of a primitive: the try of the wrapper around implementation()
\* (try_index), the try of the wrapper inside find_by_xpath (find_index),
\* the remote finds sent and the retry sleeps taken so far.
PrimIdle == [pc |-> "idle", method |-> "click_by_xpath", tries |-> 1,
             try_index |-> 0, find_index |-> 0, finds |-> 0, sleeps |-> 0,
             result |-> "pending"]

\* Settings.try_times is the budget of both wrappers.
PrimInit ==
    prim \in { [PrimIdle EXCEPT !.method = m, !.tries = n] :
                 m \in Primitives, n \in 1..MaxTries }

\* return self.settings.get_default_re_try()(implementation)(): the first
\* try of implementation() begins with self.find_by_xpath(xpath).
PrimCall ==
    /\ prim.pc = "idle"
    /\ prim' = [prim EXCEPT !.pc = "find", !.try_index = 1, !.find_index = 1]
    /\ UNCHANGED <<retryVars, fileVars, nav, wr, cpc, cloc, cres, sess, hist,
                   senv>>

\* implementation() raised 'kind': the wrapper of the primitive sleeps and
\* calls implementation() again, which calls find_by_xpath again, or lets
\* the exception reach the caller.
PrimFailed(kind) ==
    IF ReTryStep(kind, prim.try_index, prim.tries) = "retry"
      THEN [prim EXCEPT !.pc = "find", !.try_index = @ + 1,
                        !.find_index = 1, !.sleeps = @ + 1]
      ELSE [prim EXCEPT !.pc = "done", !.result = kind]

\* find_by_xpath: self.find_element_by_xpath(xpath) under its own wrapper.
\* A failed find is tried again after a sleep until the budget of
\* find_by_xpath is used up; then the exception leaves find_by_xpath and
\* implementation().
PrimFind(outcome) ==
    /\ prim.pc = "find"
    /\ LET sent == [prim EXCEPT !.finds = @ + 1]
       IN  prim' =
             IF outcome = "ok" THEN [sent EXCEPT !.pc = "act"]
             ELSE IF ReTryStep(outcome, prim.find_index, prim.tries) = "retry"
               THEN [sent EXCEPT !.find_index = @ + 1, !.sleeps = @ + 1]
             ELSE [PrimFailed(outcome) EXCEPT !.finds = @ + 1]
    /\ UNCHANGED <<retryVars, fileVars, nav, wr, cpc, cloc, cres, sess, hist,
                   senv>>

\* The rest of implementation(): element.click(), .text and the check for
\* an empty text, get_attribute(attribute), or clear, send_keys and the
\* comparison of the value.  It returns, or raises into the wrapper.
PrimAct(outcome) ==
    /\ prim.pc = "act"
    /\ prim' = IF outcome = "ok"
                 THEN [prim EXCEPT !.pc = "done", !.result = "returned"]
                 ELSE PrimFailed(outcome)
    /\ UNCHANGED <<retryVars, fileVars, nav, wr, cpc, cloc, cres, sess, hist,
                   senv>>

PrimNext ==
    \/ PrimCall
    \/ \E outcome \in RemoteOutcomes : PrimFind(outcome)
    \/ \E outcome \in RemoteOutcomes : PrimAct(outcome)

\* ------------------------------------------------------------------------
\* _session.py and _web_driver.py: the session id in os.environ
\* ------------------------------------------------------------------------

\* Per process: os.environ[_SESSION_ID_ENV_KEY] (var); for the properties,
\* the number of handles its get_driver calls returned (handles), their
\* session ids (returned), and the NEW_SESSION requests sent by calls that
\* began after one had returned (late).
EnvIdle ==
    [p \in Procs |->
       [var |-> Absent, handles |-> 0, returned |-> {}, late |-> 0]]

\* _read_session_id: os.environ.get(_SESSION_ID_ENV_KEY, None).
EnvRead(var) == IF var.exists THEN PyStr(var.data) ELSE PyNone

\* _save_session_id(session_id): nothing to do when the variable holds this
\* id, SessionAlreadyExists when it holds something else, and the
\* assignment when it is not defined.
EnvSave(var, session_id) ==
    IF var.exists
      THEN IF var.data = session_id THEN [status |-> "ok", var |-> var]
           ELSE [status |-> "SessionAlreadyExists", var |-> var]
      ELSE [status |-> "ok", var |-> Holding(session_id)]

AnswersNever(session_id) == FALSE

\* _WebDriver.execute answers NEW_SESSION itself: if session_id, for the
\* value of _read_session_id().
Answers(session_id) == session_id.isstr /\ session_id.text # <<>>

\* A step of the get_driver of _web_driver.py.
EnvOuter(p, position, result, sessions, env, label) ==
    /\ cpc' = [cpc EXCEPT ![p] = position]
    /\ cres' = [cres EXCEPT ![p] = result]
    /\ sess' = sessions
    /\ senv' = [senv EXCEPT ![p] = env]
    /\ pc' = [pc EXCEPT ![p] = label]
    /\ UNCHANGED <<retryVars, nav, wr, prim, cloc, loc, ops, ret, environ,
                   pidLock, sessLock, pidFile, sessFile, osProc, run, written,
                   stable, expect>>

\* get_driver ends with an exception; 'sent' NEW_SESSION requests were
\* sent by this step.
EnvFail(p, kind, sessions, sent) ==
    EnvOuter(p, "none", [op |-> "get_driver", status |-> kind, sid |-> <<>>],
             sessions,
             [senv[p] EXCEPT
                !.late = IF senv[p].returned = {} THEN @ ELSE @ + sent],
             "idle")

\* The end of _WebDriver.__init__ with self.session_id = sid:
\* _session._save_session_id(self.session_id), and get_driver returns the
\* handle unless that raised.
EnvSaved(p, sid, sessions, sent) ==
    LET saved == EnvSave(senv[p].var, sid)
    IN  IF saved.status # "ok" THEN EnvFail(p, saved.status, sessions, sent)
        ELSE EnvOuter(p, "none",
                      [op |-> "get_driver", status |-> "ok", sid |-> sid],
                      sessions,
                      [var |-> saved.var,
                       handles |-> senv[p].handles + 1,
                       returned |-> senv[p].returned \cup {sid},
                       late |-> IF senv[p].returned = {} THEN senv[p].late
                                ELSE senv[p].late + sent],
                      "idle")

\* _WebDriver(port): super().__init__ starts a session through execute().
\* The request is answered from the environment, or it is sent: no
\* chromedriver on the port gives MaxRetryError, raised as ServiceError
\* (unreachable); a chromedriver answers with a new session or with an
\* error (outcome).
EnvWebDriver(p, outcome, unreachable) ==
    IF Answers(EnvRead(senv[p].var))
      THEN EnvSaved(p, EnvRead(senv[p].var).text, sess, 0)
    ELSE IF PortFree THEN unreachable
    ELSE IF outcome # "ok" THEN EnvFail(p, outcome, sess, 1)
    ELSE EnvSaved(p, SidText(Len(sess) + 1),
                  Append(sess, [host |-> Listener, state |-> "open"]), 1)

\* get_driver is called: return _WebDriver(port), and on ServiceError
\* _service._start_chromedriver(), which needs the path of the executable
\* in the environment.
EnvGetDriver(p, outcome) ==
    /\ cpc[p] = "none"
    /\ pc[p] = "idle"
    /\ hist.calls < MaxEnvCalls
    /\ hist' = [hist EXCEPT !.calls = @ + 1]
    /\ EnvWebDriver(p, outcome,
                    IF environ[p]
                      THEN EnvOuter(p, "e_start", cres[p], sess, senv[p],
                                    "start_lock")
                      ELSE EnvFail(p, "KeyError", sess, 0))

\* _service._start_chromedriver() is over: return _WebDriver(port).
EnvStarted(p, outcome) ==
    /\ cpc[p] = "e_start"
    /\ pc[p] = "idle"
    /\ hist' = hist
    /\ IF ret[p].status # "ok" THEN EnvFail(p, ret[p].status, sess, 0)
       ELSE EnvWebDriver(p, outcome, EnvFail(p, "ServiceError", sess, 0))

EnvNext ==
    \/ \E p \in Procs, outcome \in {"ok", "WebDriverException"} :
         EnvGetDriver(p, outcome)
    \/ \E p \in Procs, outcome \in {"ok", "WebDriverException"} :
         EnvStarted(p, outcome)
    \/ \E p \in Procs : StartLock(p)
    \/ \E p \in Procs : PidLockTimeout(p)
    \/ \E p \in Procs : StartPopen(p)
    \/ \E p \in Procs : StartPopenFails(p)
    \/ \E p \in Procs : StartPoll(p)
    \/ \E p \in Procs : StartOpen(p)
    \/ \E p \in Procs : StartWrite(p)
    \/ \E p \in Procs : StartUnlock(p)
    \/ \E pid \in Pids, code \in {0, 1} : ServiceExits(pid, code)

\* ------------------------------------------------------------------------
\* Specifications
\* ------------------------------------------------------------------------

\* Independent processes calling the functions of _service.py and session.py.
Next ==
    \/ \E p \in Procs : StartBegin(p)
    \/ \E p \in Procs : StartLock(p)
    \/ \E p \in Procs : PidLockTimeout(p)
    \/ \E p \in Procs : StartPopen(p)
    \/ \E p \in Procs : StartPopenFails(p)
    \/ \E p \in Procs : StartPoll(p)
    \/ \E p \in Procs : StartOpen(p)
    \/ \E p \in Procs : StartWrite(p)
    \/ \E p \in Procs : StartUnlock(p)
    \/ \E pid \in Pids, code \in {0, 1} : ProcExit(pid, code)
    \/ \E p \in Procs : StopBegin(p)
    \/ \E p \in Procs : StopLock(p)
    \/ \E p \in Procs : StopIsFile(p)
    \/ \E p \in Procs : StopReadPid(p)
    \/ \E p \in Procs : StopKill(p)
    \/ \E p \in Procs : StopRemove(p)
    \/ \E p \in Procs : StopUnlock(p)
    \/ \E p \in Procs : ReadBegin(p)
    \/ \E p \in Procs : ReadLock(p)
    \/ \E p \in Procs : SessLockTimeout(p)
    \/ \E p \in Procs : ReadOpen(p)
    \/ \E p \in Procs : ReadReadline(p)
    \/ \E p \in Procs : ReadUnlock(p)
    \/ \E p \in Procs, v \in SessionIds : SaveBegin(p, v)
    \/ \E p \in Procs : SaveLock(p)
    \/ \E p \in Procs : SaveOpen(p)
    \/ \E p \in Procs : SaveWrite(p)
    \/ \E p \in Procs : SaveUnlock(p)
    \/ \E p \in Procs : ClearBegin(p)
    \/ \E p \in Procs : ClearLock(p)
    \/ \E p \in Procs : ClearRemove(p)
    \/ \E p \in Procs : ClearUnlock(p)

\* The values of the facade's variables while no facade call is made.
ConnIdle ==
    /\ cpc = [p \in Procs |-> "none"]
    /\ cloc = [p \in Procs |-> NoCLocals]
    /\ cres = [p \in Procs |-> NoCResult]
    /\ sess = <<>>
    /\ hist = NoHist

ExtIdle ==
    /\ nav = NavIdle
    /\ wr = WriteIdle
    /\ ConnIdle
    /\ senv = EnvIdle
    /\ prim = PrimIdle

Init == FileInit /\ RetryIdle /\ ExtIdle

Spec == Init /\ [][Next]_vars

RetryOnlyInit == RetryInit /\ FileIdle /\ ExtIdle

SpecRetry == RetryOnlyInit /\ [][RetryNext]_vars

NavOnlyInit ==
    /\ NavInit
    /\ wr = WriteIdle
    /\ ConnIdle
    /\ senv = EnvIdle
    /\ prim = PrimIdle
    /\ RetryIdle
    /\ FileIdle

SpecNav == NavOnlyInit /\ [][NavNext]_vars

ConnectInit ==
    /\ FileIdle
    /\ RetryIdle
    /\ nav = NavIdle
    /\ wr = WriteIdle
    /\ ConnIdle
    /\ senv = EnvIdle
    /\ prim = PrimIdle

SpecConnect == ConnectInit /\ [][ConnectNext]_vars

\* Processes calling the get_driver of _web_driver.py.
SpecEnv == ConnectInit /\ [][EnvNext]_vars

PrimOnlyInit ==
    /\ PrimInit
    /\ nav = NavIdle
    /\ wr = WriteIdle
    /\ ConnIdle
    /\ senv = EnvIdle
    /\ RetryIdle
    /\ FileIdle

SpecPrim == PrimOnlyInit /\ [][PrimNext]_vars

WriteOnlyInit ==
    /\ WriteInit
    /\ nav = NavIdle
    /\ ConnIdle
    /\ senv = EnvIdle
    /\ prim = PrimIdle
    /\ RetryIdle
    /\ FileIdle

SpecWrite == WriteOnlyInit /\ [][WriteNext]_vars

\* ------------------------------------------------------------------------
\* Properties of the retry wrapper (SpecRetry)
\* ------------------------------------------------------------------------

\* The exception class is in the configured recoverable set.
Recoverable(kind) == \E t \in exception_types : IsInstance(kind, t)

\* The operation raises a recoverable exception on its first k invocations.
FailsFirst(k) ==
    \A i \in 1..k : outcomes[i] # "ok" /\ Recoverable(outcomes[i])

\* What invocation number 'call' of the operation hands to its caller.
OutcomeOf(call) ==
    IF outcomes[call] = "ok" THEN Returned(call)
    ELSE Raised(outcomes[call], call)

\* C1: with tries = N >= 1 and k < N, an operation that raises a recoverable
\* exception on its first k invocations and then succeeds makes the decorated
\* call return that success, after exactly k+1 invocations and k sleeps.
C1_FailsThenSucceeds ==
    \A k \in 0..(MaxTries - 1) :
        ( /\ deco.pc = "done"
          /\ tries >= 1
          /\ k < tries
          /\ FailsFirst(k)
          /\ outcomes[k + 1] = "ok" )
        => /\ deco.result = Returned(k + 1)
           /\ deco.calls = k + 1
           /\ deco.sleeps = k

C1_Witness ==
    /\ deco.pc = "done"
    /\ tries = MaxTries
    /\ FailsFirst(tries - 1)
    /\ outcomes[tries] = "ok"
    /\ deco.sleeps = tries - 1

\* C2: with tries = N >= 1, an operation that raises a recoverable exception
\* on every invocation is invoked exactly N times, the exception of the N-th
\* invocation reaches the caller, and there are exactly N-1 sleeps.
C2_ExhaustionRaises ==
    ( /\ deco.pc = "done"
      /\ tries >= 1
      /\ FailsFirst(tries) )
    => /\ deco.calls = tries
       /\ deco.result = Raised(outcomes[tries], tries)
       /\ deco.sleeps = tries - 1

C2_Witness ==
    /\ deco.pc = "done"
    /\ tries = MaxTries
    /\ FailsFirst(tries)
    /\ deco.result.how = "raise"

\* C3: an exception whose class is not in the recoverable set is re-raised on
\* the attempt where it occurs: after c-1 recoverable failures the c-th
\* invocation's exception reaches the caller after exactly c invocations and
\* c-1 sleeps; on the first attempt, one invocation and no sleep.
C3_UnrecoverableRaisesAtOnce ==
    \A c \in 1..MaxTries :
        ( /\ deco.pc = "done"
          /\ c <= tries
          /\ FailsFirst(c - 1)
          /\ outcomes[c] # "ok"
          /\ ~Recoverable(outcomes[c]) )
        => /\ deco.result = Raised(outcomes[c], c)
           /\ deco.calls = c
           /\ deco.sleeps = c - 1

C3_Witness ==
    /\ deco.pc = "done"
    /\ tries = MaxTries
    /\ FailsFirst(1)
    /\ outcomes[2] # "ok"
    /\ ~Recoverable(outcomes[2])
    /\ deco.calls = 2

\* C4: with the attempt budget 0 or 1 the wrapper (the decorator and the
\* combinator alike) invokes the operation exactly once, never sleeps, and
\* the caller gets that invocation's result or failure.
C4_BudgetZeroOrOneRunsOnce ==
    \A r \in {deco, cm} :
        (r.pc = "done" /\ tries \in {0, 1})
        => /\ r.calls = 1
           /\ r.sleeps = 0
           /\ r.result = OutcomeOf(1)

\* C5: for every sequence of operation outcomes the combinator
\* repeat_on_exceptions and the decorator RepeatOnFailure invoke the
\* operation the same number of times, sleep the same number of times and
\* hand the same result or exception to the caller.
C5_CombinatorMatchesDecorator ==
    (deco.pc = "done" /\ cm.pc = "done")
    => /\ cm.calls = deco.calls
       /\ cm.sleeps = deco.sleeps
       /\ cm.result = deco.result

\* ------------------------------------------------------------------------
\* Properties of the pid record and the session record (Spec)
\* ------------------------------------------------------------------------

\* C6: two start() calls in direct succession by one process, with no stop()
\* in between and nobody else using the library, launch exactly one process
\* and leave its pid in the pid record.
C6_TwoStartsOneLaunch ==
    \A p \in Procs :
        (run[p].starts = 2 /\ \A q \in Procs \ {p} : ops[q] = 0)
        => /\ Cardinality(run[p].pids) = 1
           /\ \E pid \in run[p].pids : pidFile = Holding(IntToStr(pid))

\* The caller has launched a process and has not yet written its pid.
LaunchedNotWritten(p) == pc[p] \in {"start_poll", "start_open", "start_write"}

\* The positions from which a caller's next step reads, writes or removes
\* the pid record, and the same for the session record.
PidRecordPcs ==
    {"start_open", "start_write", "stop_isfile", "stop_read", "stop_remove"}
SessRecordPcs ==
    {"rd_open", "rd_readline", "sv_open", "sv_write", "cl_remove"}

\* This step is a read, write or removal of the pid record by caller q.
AccessesPidRecord(q) == pc[q] \in PidRecordPcs /\ pc'[q] # pc[q]

\* C7: from the launch to the write of its pid the starting caller holds the
\* pid lock throughout, and no step of another caller reads, writes or
\* removes the pid record in between.
C7_LaunchAndWriteInOneAcquisition ==
    [][ \A p \in Procs :
          LaunchedNotWritten(p)
          => /\ p \in pidLock
             /\ \A q \in Procs \ {p} : ~AccessesPidRecord(q) ]_vars

C7_Witness ==
    \E p, q \in Procs :
        /\ p # q
        /\ pc[p] = "start_write"
        /\ pc[q] = "stop_lock"
        /\ pidFile.exists

\* C8: a caller that is about to read, write or remove a record holds that
\* record's lock; at most one caller holds a lock; and nobody is reading a
\* record while another caller has opened it for writing and not yet written.
C8_AccessOnlyUnderLock ==
    /\ \A p \in Procs : pc[p] \in PidRecordPcs => p \in pidLock
    /\ \A p \in Procs : pc[p] \in SessRecordPcs => p \in sessLock
    /\ Cardinality(pidLock) <= 1
    /\ Cardinality(sessLock) <= 1
    /\ \A p, q \in Procs :
          p # q => /\ ~(pc[p] \in {"rd_open", "rd_readline"} /\ pc[q] = "sv_write")
                   /\ ~(pc[p] \in {"stop_isfile", "stop_read"}
                          /\ pc[q] = "start_write")

C8_Witness ==
    \E p, q \in Procs :
        /\ p # q
        /\ pc[p] = "sv_write"
        /\ pc[q] = "rd_lock"
        /\ loc[p].before.exists

\* C9: whenever no write of the session record is in progress its content is
\* exactly a value passed to one of the completed writes; and a read that
\* started after _save_session_id(v) returned, with no write or clear since,
\* returns v.
C9_NoMixedContentAndReadAfterWrite ==
    /\ ( (sessFile.exists /\ \A p \in Procs : pc[p] # "sv_write")
         => PyStr(sessFile.data) \in written )
    /\ \A p \in Procs :
          (pc[p] = "idle" /\ ret[p] = Result("read", "ok", ret[p].text)
             /\ expect[p].valid)
          => PyStr(ret[p].text) = expect[p].value

C9_Witness ==
    \E p, q \in Procs :
        /\ p # q
        /\ pc[p] = "idle"
        /\ ret[p].op = "read"
        /\ expect[p].valid
        /\ ret[q].op = "save"
        /\ Cardinality(written) = 2

\* C10: storing a session id while one is recorded raises
\* SessionAlreadyExists exactly when the recorded id differs from the
\* proposed one, and then the recorded id is left unchanged; storing the
\* recorded id again succeeds and leaves the record unchanged.
C10_ConflictRaises ==
    \A p \in Procs :
        /\ (pc[p] = "sv_unlock" /\ loc[p].before.exists)
           => sessFile = loc[p].before
        /\ (pc[p] = "idle" /\ ret[p].op = "save" /\ ret[p].status # "Timeout"
              /\ loc[p].before.exists)
           => (ret[p].status = "SessionAlreadyExists"
                 <=> loc[p].before.data # loc[p].sid)

\* ------------------------------------------------------------------------
\* Properties of the scoped visit (SpecNav)
\* ------------------------------------------------------------------------

\* C13: in open_url with go_back = TRUE, when the scoped work raises, the
\* go-back step has run by the time the exception reaches the caller: the
\* current location is the original one again.
C13_GoBackRunsOnException ==
    (nav.pc = "done" /\ nav.result = "raised" /\ nav.go_back)
        => nav.current_url = nav.original_url

\* C20: go_to issues no navigation when the target is the current location
\* and refresh is false, and exactly one otherwise; so an open_url of the
\* current location without refresh, whose scoped work stays there,
\* navigates neither on entry nor on exit.
C20_NavigatesOnlyWhenNeeded ==
    /\ nav.pc \in {"body", "exit", "done"} =>
          nav.entry_gets = IF nav.refresh \/ nav.url # nav.original_url
                             THEN 1 ELSE 0
    /\ (nav.pc = "done" /\ nav.result = "returned") =>
          nav.exit_gets = IF nav.go_back
                               /\ (nav.refresh \/ nav.original_url # nav.at_exit)
                            THEN 1 ELSE 0
    /\ (nav.pc = "done" /\ nav.result = "returned" /\ ~nav.refresh
          /\ nav.url = nav.original_url /\ nav.body = "pass") =>
          nav.entry_gets = 0 /\ nav.exit_gets = 0

C20_Witness ==
    /\ nav.pc = "done" /\ nav.result = "returned" /\ nav.go_back
    /\ ~nav.refresh /\ nav.url = nav.original_url /\ nav.body = "pass"
    /\ nav.entry_gets = 0 /\ nav.exit_gets = 0

\* ------------------------------------------------------------------------
\* Properties of the verified write (SpecWrite)
\* ------------------------------------------------------------------------

Live == {"running", "noport"}

\* C16: when the launch fails, start() raises, releases the lock and leaves
\* the pid record alone; and start() goes on to write a pid to the record
\* only for a process that was started and had not already exited when
\* start() polled it.
C16_RecordedPidWasStarted ==
    [][\A p \in Procs :
         /\ (pc[p] = "start_popen" /\ pc'[p] = "idle") =>
               /\ ret'[p].status # "ok"
               /\ p \notin pidLock'
               /\ pidFile' = pidFile
         /\ (pc[p] = "start_poll" /\ pc'[p] = "start_open") =>
               osProc[loc[p].pid] \in Live]_vars

\* A step in which p calls start().
StartCalled(p) ==
    /\ pc[p] = "idle"
    /\ ops'[p] = ops[p] + 1
    /\ pc'[p] \in {"idle", "start_lock"}

StartPcs == {"start_lock", "start_popen", "start_poll", "start_open",
             "start_write", "start_unlock"}

\* C17: with the executable path not configured, start() raises KeyError
\* before it asks for the pid lock: no process is launched, no default
\* executable is used, and the lock and the pid record stay as they are.
C17_UnconfiguredStartFailsFast ==
    [][\A p \in Procs :
         /\ (StartCalled(p) /\ ~environ[p]) =>
               /\ pc'[p] = "idle"
               /\ ret'[p] = Result("start", "KeyError", <<>>)
               /\ UNCHANGED <<pidLock, pidFile, osProc>>
         /\ pc'[p] \in StartPcs => environ[p]]_vars

C17_Witness ==
    \E p \in Procs :
        /\ ~environ[p]
        /\ pc[p] = "idle"
        /\ ret[p] = Result("start", "KeyError", <<>>)
        /\ pidFile.exists

\* C18: stop() holds the pid lock; with a pid recorded it signals exactly
\* that pid and goes on without error when the pid is not live; the pid
\* record is absent when stop() returns; with no record it signals nothing.
C18_StopSignalsRecordedPidOnly ==
    [][\A p \in Procs :
         LET recorded == ReadPid(pidFile.data)
         IN  /\ pc[p] \in {"stop_isfile", "stop_read", "stop_kill",
                            "stop_remove", "stop_unlock"} => p \in pidLock
             /\ (pc[p] = "stop_kill" /\ pc'[p] # "stop_kill") =>
                   /\ pidFile.exists
                   /\ pc'[p] = "stop_remove"
                   /\ \A pid \in Pids :
                         osProc'[pid] =
                           IF pid = recorded /\ osProc[pid] \in Live
                             THEN "terminated" ELSE osProc[pid]
             /\ (pc[p] = "stop_isfile" /\ pc'[p] # "stop_isfile"
                   /\ ~pidFile.exists) =>
                   pc'[p] = "stop_unlock" /\ UNCHANGED <<osProc, pidFile>>
             /\ (pc[p] = "stop_unlock" /\ pc'[p] = "idle") =>
                   /\ ~pidFile'.exists
                   /\ ret'[p] = Result("stop", "ok", <<>>)
             /\ ~(pc[p] \in {"stop_isfile", "stop_read", "stop_kill",
                              "stop_remove"} /\ pc'[p] = "idle")]_vars

C18_Witness ==
    \E p \in Procs :
        /\ pc[p] = "stop_remove"
        /\ loc[p].pid \in Pids
        /\ osProc[loc[p].pid] \in {"exited0", "exited1", "bindfail"}

\* ------------------------------------------------------------------------
\* Properties of get_driver and shutdown (SpecConnect)
\* ------------------------------------------------------------------------

\* A step in which a call of p ends.
CallEnds(p) ==
    /\ cpc'[p] = "none"
    /\ cpc[p] # "none" \/ (hist'.calls # hist.calls /\ cres'[p] # cres[p])

\* A step in which a get_driver of p ends that ran with no other process
\* inside a call, launched its chromedriver, and saw no session and no
\* chromedriver die.
ConnectEndsUndisturbed(p) ==
    /\ CallEnds(p)
    /\ cpc[p] # "none"
    /\ cres'[p].op = "connect"
    /\ cres'[p].status # "OSError"
    /\ cloc[p].alone
    /\ Faults' = cloc[p].faults0

C15_ShutdownClearsBothRecords ==
    [][\A p \in Procs :
         (/\ CallEnds(p)
          /\ cres'[p].op \in {"shutdown", "Driver.shutdown"}
          /\ IF cpc[p] = "none"
                THEN \A q \in Procs \ {p} : cpc[q] = "none"
                ELSE cloc[p].alone)
           => ~sessFile'.exists /\ ~pidFile'.exists]_vars

LockPcs == {"start_lock", "stop_lock", "rd_lock", "sv_lock", "cl_lock"}

\* C19: a call that does not get its lock ends with Timeout and leaves the
\* records, the locks and the processes as they are; get_driver and
\* shutdown end with that Timeout, and get_driver does not go on to clear
\* the session record and open a new session.
C19_LockTimeoutReachesCaller ==
    [][\A p \in Procs :
         /\ (pc[p] \in LockPcs /\ pc'[p] = "idle") =>
               /\ ret'[p].status = "Timeout"
               /\ UNCHANGED <<pidFile, sessFile, pidLock, sessLock, osProc>>
         /\ (cpc[p] # "none" /\ pc[p] = "idle" /\ ret[p].status = "Timeout"
               /\ cpc'[p] # cpc[p]) =>
               /\ cpc'[p] = "none"
               /\ pc'[p] = "idle"
               /\ cres'[p].status = "Timeout"
               /\ UNCHANGED <<pidFile, sessFile, sess>>]_vars

C19_Witness ==
    \E p \in Procs :
        /\ cpc[p] = "none"
        /\ cres[p] = [op |-> "connect", status |-> "Timeout", sid |-> <<>>]
        /\ ret[p] = Result("save", "Timeout", <<>>)

\* C21: when the session id came from the record and the probe fails
\* because no chromedriver answers on the port, get_driver goes on to
\* clear the record and open a new session; it does not end with an
\* exception and the record still holding that id.
C21_UnreachableProbeFallsBack ==
    [][\A p \in Procs :
         (/\ cpc[p] = "c_probe" /\ cpc'[p] # "c_probe"
          /\ cloc[p].requests = 0
          /\ PortFree)
           => /\ cpc'[p] = "c_clear"
              /\ ~(cres'[p].status # "ok"
                     /\ sessFile' = Holding(cloc[p].driver))]_vars

\* C24: when stop() returns, after the start() calls made before it, no
\* chromedriver launched by them is still alive (the pid record being
\* absent, it would be unrecorded): each has exited or was signalled.
C24_StopLeavesNoOrphan ==
    [][\A p \in Procs :
         (pc[p] = "stop_unlock" /\ pc'[p] = "idle")
           => \A pid \in Pids : osProc'[pid] \notin Live]_vars

\* Both processes have made one get_driver each, from an absent session
\* record, both have returned a handle, and nothing died by itself.
BothConnected ==
    /\ hist.calls = 2
    /\ Faults = 0
    /\ \A p \in Procs :
          /\ cpc[p] = "none"
          /\ cres[p].op = "connect"
          /\ cres[p].status = "ok"

\* C25: once the get_driver calls of two processes have both returned, in
\* whatever order their steps were taken, the session record holds the id
\* both handles are bound to, and no live session is unrecorded.
C25_ConcurrentConnectsAgree ==
    BothConnected =>
      /\ \A p \in Procs : sessFile = Holding(cres[p].sid)
      /\ \A i \in 1..Len(sess) :
            SessionAlive(SidText(i)) => sessFile = Holding(SidText(i))

\* One process has made one get_driver and the other one shutdown, both
\* calls are over, and nothing died by itself.
ConnectAndShutdownOver ==
    /\ hist.calls = 2
    /\ Faults = 0
    /\ \A p \in Procs : cpc[p] = "none"
    /\ \E p, q \in Procs :
          /\ cres[p].op = "connect"
          /\ cres[q].op \in {"shutdown", "Driver.shutdown"}

\* C26: once a get_driver of one process and a shutdown of another have
\* both returned, in whatever order their steps were taken, a recorded
\* session id comes with a recorded pid of a live chromedriver.
C26_RecordedSessionHasLiveService ==
    (ConnectAndShutdownOver /\ sessFile.exists /\ sessFile.data # <<>>) =>
      /\ pidFile.exists
      /\ ReadPid(pidFile.data) \in Pids
      /\ osProc[ReadPid(pidFile.data)] \in Live

\* C23: over one call of a primitive, the element lookup included, the
\* remote find is sent at most try_times times and at most try_times retry
\* sleeps are taken.
C23_SingleRetryBudget ==
    /\ prim.finds <= prim.tries
    /\ prim.sleeps <= prim.tries

\* C22: with the session id kept in the environment, the get_driver calls
\* of one process all return handles of one session id, no call made after
\* one has returned sends a NEW_SESSION request, and no call raises
\* SessionAlreadyExists.
C22_EnvStoreReusesSession ==
    \A p \in Procs :
      /\ Cardinality(senv[p].returned) <= 1
      /\ senv[p].late = 0
      /\ cres[p].status # "SessionAlreadyExists"

\* Three get_driver calls of one process have returned a handle each.
C22_Witness ==
    \E p \in Procs :
      /\ senv[p].handles = 3
      /\ senv[p].returned = {SidText(1)}
      /\ Len(sess) = 1

====
